---- MODULE Spec2Model ----
(***************************************************************************)
(* neurox/app.py: the menu-bar application NeuroxApp.  The model covers    *)
(* the timer-driven poller (update), the handlers that reset its backoff   *)
(* (kill_job, create_job, submit_preset via set_active_mode), the menu     *)
(* they read and write (render_menu, render_job_item), and the stored      *)
(* preset list (update_preset and its callers).                            *)
(*                                                                         *)
(* Every handler runs to completion on the GUI thread, so one action is    *)
(* one whole handler invocation.  The collaborators that are not part of   *)
(* app.py (NeuroxClient, rumps dialogs and notifications) are inputs: the  *)
(* result of each call is chosen with \E.                                  *)
(***************************************************************************)
EXTENDS Integers, Sequences, FiniteSets, TLC

\* ------------------------------------------------------------------ bounds
\* longest list of updates one client.update() call returns
MaxUpdates == 2
\* ticks of a counted, reset-free run (SpecSched)
MaxTicks == 100
\* longest stored preset list (SpecPresets)
MaxPresets == 3
\* cap of the ghost counter sincePoll (never reached by the code as written)
MaxGap == 40

\* --------------------------------------------------------- program constants
MAX_UPDATE_CYCLE_LEN == 30

Min(a, b) == IF a <= b THEN a ELSE b

\* ------------------------------------------------------------- input domains
\* exceptions a collaborator call can raise, by the except clause that takes it
ExcKinds == {"ValueError", "AuthenticationError", "Exception"}

\* the two classes show_updates distinguishes
UpdateKinds == {"StatusUpdate", "NewJobUpdate"}

UpdateLists == UNION {[1..n -> UpdateKinds] : n \in 0..MaxUpdates}

\* jobs of the platform: id and description (description may be empty)
AllJobs == {[id |-> "job-1", description |-> ""],
            [id |-> "job-2", description |-> "train"]}

PresetIds == {"u1", "u2", "u3"}
PresetNames == {"n1", "n2"}
PresetParams == {"a", "b"}
Presets == [id : PresetIds, name : PresetNames, job_params : PresetParams]

\* notifications (rumps.notification title and message)
NoteStatus == [title |-> "Job status has changed", text |-> "status"]
NoteNewJob == [title |-> "New job is created", text |-> "status"]
NoteValidation == [title |-> "Failed to get updates", text |-> "str(e)"]
NoteAuth == [title |-> "Failed to get updates", text |-> "You may be using the wrong token"]
NoteKill == [title |-> "Failed to kill the job", text |-> "str(e)"]
NoteCreate == [title |-> "Failed to create new job", text |-> "str(e)"]

VARIABLES
    iteration,          \* self.iteration
    update_cycle_len,   \* self.update_cycle_len
    menu,               \* self.menu: the job items, each under its key
    menuFull,           \* self.menu holds 'Create job...' and 'Presets' (render_menu completed)
    presets,            \* settings['presets']
    \* what the last handler invocation did
    lastOp,             \* name of the handler
    calls,              \* client calls it made, in order
    notes,              \* notifications it emitted, in order
    shown,              \* show_updates was called
    rendered,           \* render_menu was called
    escaped,            \* an exception left the handler
    clicked,            \* the user confirmed its dialog
    result,             \* outcome of its first client call ("ok", the exception, "none")
    \* history
    lenBefore,          \* update_cycle_len when the last handler started
    gapBefore,          \* sincePoll when the last handler started
    resetBefore,        \* justReset when the last handler started
    sincePoll,          \* ticks since the last executed poll (or start)
    justReset,          \* set_active_mode ran since the last tick
    ticks,              \* ticks so far (counted runs only)
    polls,              \* executed polls so far (counted runs only)
    oldPresets,         \* settings['presets'] before the last update_preset
    argPreset,          \* preset passed to the last update_preset
    argRemove           \* remove flag passed to the last update_preset

pollVars == <<iteration, update_cycle_len>>
obsVars == <<lastOp, calls, notes, shown, rendered, escaped, clicked, result>>
histVars == <<lenBefore, gapBefore, resetBefore, sincePoll, justReset>>
countVars == <<ticks, polls>>
presetVars == <<presets, oldPresets, argPreset, argRemove>>
menuVars == <<menu, menuFull>>
vars == <<pollVars, menuVars, obsVars, histVars, countVars, presetVars>>

NoPreset == [id |-> "", name |-> "", job_params |-> ""]

\* a poll executed in the last handler
polled == \E i \in 1..Len(calls) : calls[i] = "update"

\* ---------------------------------------------------------------- __init__
InitApp ==
    /\ iteration = 0
    /\ update_cycle_len = 1
    /\ menu = {}
    /\ menuFull = FALSE
    /\ lastOp = "__init__"
    /\ calls = <<>>
    /\ notes = <<>>
    /\ shown = FALSE
    /\ rendered = FALSE
    /\ escaped = FALSE
    /\ clicked = FALSE
    /\ result = "none"
    /\ lenBefore = 1
    /\ gapBefore = 0
    /\ resetBefore = FALSE
    /\ sincePoll = 0
    /\ justReset = FALSE
    /\ ticks = 0
    /\ polls = 0
    /\ oldPresets = <<>>
    /\ argPreset = NoPreset
    /\ argRemove = FALSE

Init ==
    /\ InitApp
    /\ presets \in {<<>>, <<[id |-> "u1", name |-> "n1", job_params |-> "a"]>>}

\* the history of a handler invocation: the state it started in
Before ==
    /\ lenBefore' = update_cycle_len
    /\ gapBefore' = sincePoll
    /\ resetBefore' = justReset

\* ---------------------------------------------------------- set_active_mode
set_active_mode ==
    /\ update_cycle_len' = 1
    /\ justReset' = TRUE

\* ------------------------------------------------------------ show_updates
ShowNote(kind) == IF kind = "StatusUpdate" THEN NoteStatus ELSE NoteNewJob

\* notifications of the first n updates
show_updates(updates, n) == [i \in 1..n |-> ShowNote(updates[i])]

\* --------------------------------------------------- update: except clauses
CatchNotifyAll(exc) ==
    IF exc = "ValueError" THEN <<NoteValidation>> ELSE <<NoteAuth>>

Catch(exc) ==
    CASE exc = "ValueError" -> <<NoteValidation>>
      [] exc = "AuthenticationError" -> <<NoteAuth>>
      [] OTHER -> <<>>

\* ------------------------------------------------ render_job_item / render_menu
job_name(job) == IF job.description # "" THEN job.description ELSE job.id

render_job_item(job) == [key |-> job_name(job), job |-> job]

\* menu after render_menu: cleared, then one item per active job
RenderedMenu(jobs) == {render_job_item(job) : job \in jobs}

\* render_menu: the menu is cleared first; get_active_jobs or the sort key
\* (datetime.fromisoformat) may raise renderExc before any item is added back
render_menu(renderExc, jobs) ==
    /\ menu' = RenderedMenu(jobs)
    /\ menuFull' = (renderExc = "ok")

\* ------------------------------------------------------------------ update
ShouldSkipLe(it, len) == it <= len

ShouldSkip(it, len) == it < len

NextCycleLenUncapped(len) == 2 * len

NextCycleLenStuck(len) == Min(len, MAX_UPDATE_CYCLE_LEN)

NextCycleLen(len) == Min(2 * len, MAX_UPDATE_CYCLE_LEN)

\* a slip: the backoff is advanced before the early return
UpdateSkipDoubling ==
    /\ ShouldSkip(iteration + 1, update_cycle_len)
    /\ iteration' = iteration + 1
    /\ update_cycle_len' = NextCycleLen(update_cycle_len)
    /\ calls' = <<>>
    /\ notes' = <<>>
    /\ shown' = FALSE
    /\ rendered' = FALSE
    /\ escaped' = FALSE
    /\ result' = "none"
    /\ sincePoll' = sincePoll + 1
    /\ UNCHANGED menuVars

\* the tick that returns early
UpdateSkip ==
    /\ ShouldSkip(iteration + 1, update_cycle_len)
    /\ iteration' = iteration + 1
    /\ calls' = <<>>
    /\ notes' = <<>>
    /\ shown' = FALSE
    /\ rendered' = FALSE
    /\ escaped' = FALSE
    /\ result' = "none"
    /\ sincePoll' = sincePoll + 1
    /\ UNCHANGED <<update_cycle_len, menuVars>>

\* the try block: client.update() and show_updates(updates)
\* res: outcome of client.update; updates: its return value;
\* showExc, at: show_updates raises showExc at its at-th notification
UpdateTry(res, updates, showExc, at) ==
    /\ result' = res
    /\ IF res # "ok"
       THEN /\ shown' = FALSE
            /\ notes' = Catch(res)
       ELSE /\ shown' = TRUE
            /\ IF showExc = "ok"
               THEN notes' = show_updates(updates, Len(updates))
               ELSE notes' = show_updates(updates, at - 1) \o Catch(showExc)

\* the tick that polls
UpdatePoll ==
    /\ ~ShouldSkip(iteration + 1, update_cycle_len)
    /\ iteration' = 0
    /\ update_cycle_len' = NextCycleLen(update_cycle_len)
    /\ sincePoll' = 0
    /\ \E res \in ExcKinds \cup {"ok"}, updates \in UpdateLists,
          showExc \in ExcKinds \cup {"ok"} :
          \E at \in 1..Len(updates) \cup {0} :
             /\ (showExc = "ok") <=> (at = 0)
             /\ res # "ok" => (updates = <<>> /\ showExc = "ok")
             /\ UpdateTry(res, updates, showExc, at)
    /\ rendered' = TRUE
    \* render_menu: get_active_jobs or the sort key may raise, after the clear
    /\ \E renderExc \in {"ok", "Exception"}, jobs \in SUBSET AllJobs :
          /\ renderExc # "ok" => jobs = {}
          /\ render_menu(renderExc, jobs)
          /\ escaped' = (renderExc # "ok")
    /\ calls' = <<"update", "get_active_jobs">>

update ==
    /\ sincePoll < MaxGap
    /\ lastOp' = "update"
    /\ Before
    /\ justReset' = FALSE
    /\ clicked' = FALSE
    /\ UpdateSkip \/ UpdatePoll
    /\ UNCHANGED presetVars

\* ---------------------------------------------------------------- kill_job
HasKey(m, key) == \E it \in m : it.key = key

\* del self.menu[key]
DelKey(m, key) == {it \in m : it.key # key}

\* the Kill item of a job item of the menu
kill_job(item) ==
    /\ item \in menu
    /\ lastOp' = "kill_job"
    /\ Before
    /\ \E click \in BOOLEAN, res \in {"ok", "Exception"} :
          /\ clicked' = click
          /\ IF ~click
             THEN /\ calls' = <<>>
                  /\ result' = "none"
                  /\ notes' = <<>>
                  /\ UNCHANGED <<update_cycle_len, justReset, menu>>
             ELSE /\ calls' = <<"job_kill">>
                  /\ result' = res
                  /\ IF res = "ok" /\ HasKey(menu, item.job.id)
                     THEN /\ menu' = DelKey(menu, item.job.id)
                          /\ set_active_mode
                          /\ notes' = <<>>
                     ELSE \* job_kill raised, or del self.menu[job.id] raised KeyError
                          /\ notes' = <<NoteKill>>
                          /\ UNCHANGED <<update_cycle_len, justReset, menu>>
    /\ shown' = FALSE
    /\ rendered' = FALSE
    /\ escaped' = FALSE
    /\ UNCHANGED <<iteration, sincePoll, menuFull, countVars, presetVars>>

\* ------------------------------------------------- create_job, submit_preset
\* the end of both handlers: the dialogs were confirmed or cancelled, then
\* client.submit_raw(params) and set_active_mode()
Submit(op) ==
    /\ lastOp' = op
    /\ Before
    /\ \E click \in BOOLEAN, res \in {"ok", "Exception"} :
          /\ clicked' = click
          /\ IF ~click
             THEN /\ calls' = <<>>
                  /\ result' = "none"
                  /\ notes' = <<>>
                  /\ UNCHANGED <<update_cycle_len, justReset>>
             ELSE /\ calls' = <<"submit_raw">>
                  /\ result' = res
                  /\ IF res = "ok"
                     THEN /\ set_active_mode
                          /\ notes' = <<>>
                     ELSE /\ notes' = <<NoteCreate>>
                          /\ UNCHANGED <<update_cycle_len, justReset>>
    /\ shown' = FALSE
    /\ rendered' = FALSE
    /\ escaped' = FALSE
    /\ UNCHANGED <<iteration, sincePoll, menuVars, countVars, presetVars>>

\* the 'Create job...' item
create_job ==
    /\ menuFull
    /\ Submit("create_job")

\* the 'Submit...' item of a preset of the 'Presets' item
submit_preset(preset) ==
    /\ menuFull
    /\ \E i \in 1..Len(presets) : presets[i] = preset
    /\ Submit("submit_preset")

\* ----------------------------------------------------------- update_preset
RECURSIVE PresetLoop(_, _, _, _)
\* the for loop over settings['presets'], after its first n entries
PresetLoop(stored, preset, remove, n) ==
    IF n = 0
    THEN [new_presets |-> <<>>, is_found |-> FALSE]
    ELSE LET acc == PresetLoop(stored, preset, remove, n - 1)
             it == stored[n]
         IN  IF it.id = preset.id
             THEN [new_presets |-> IF ~remove
                                   THEN Append(acc.new_presets, preset)
                                   ELSE acc.new_presets,
                   is_found |-> TRUE]
             ELSE [new_presets |-> Append(acc.new_presets, it),
                   is_found |-> acc.is_found]

\* a slip: the entry that is not found is put first
UpdatePresetPrepend(stored, preset, remove) ==
    LET acc == PresetLoop(stored, preset, remove, Len(stored))
    IN  IF ~acc.is_found /\ ~remove
        THEN <<preset>> \o acc.new_presets
        ELSE acc.new_presets

\* the new value of settings['presets']
UpdatePreset(stored, preset, remove) ==
    LET acc == PresetLoop(stored, preset, remove, Len(stored))
    IN  IF ~acc.is_found /\ ~remove
        THEN Append(acc.new_presets, preset)
        ELSE acc.new_presets

update_preset(preset, remove) ==
    /\ oldPresets' = presets
    /\ argPreset' = preset
    /\ argRemove' = remove
    /\ presets' = UpdatePreset(presets, preset, remove)

\* render_menu() called by a handler other than update
Rerender ==
    /\ rendered' = TRUE
    /\ calls' = <<"get_active_jobs">>
    /\ \E renderExc \in {"ok", "Exception"}, jobs \in SUBSET AllJobs :
          /\ renderExc # "ok" => jobs = {}
          /\ render_menu(renderExc, jobs)
          /\ result' = renderExc
          /\ escaped' = (renderExc # "ok")

\* what every preset handler leaves alone or records; the dialog is answered
\* before anything else happens
PresetHandler(op, click) ==
    /\ menuFull
    /\ lastOp' = op
    /\ Before
    /\ clicked' = click
    /\ notes' = <<>>
    /\ shown' = FALSE
    /\ UNCHANGED <<pollVars, sincePoll, justReset, countVars>>

\* the dialogs were cancelled: nothing is stored or rendered
Cancelled ==
    /\ calls' = <<>>
    /\ result' = "none"
    /\ rendered' = FALSE
    /\ escaped' = FALSE
    /\ oldPresets' = presets
    /\ argPreset' = NoPreset
    /\ argRemove' = FALSE
    /\ UNCHANGED <<menuVars, presets>>

StoredIds == {presets[i].id : i \in 1..Len(presets)}

InMenu(preset) == \E i \in 1..Len(presets) : presets[i] = preset

\* uuid is str(uuid4()): an id no stored preset has
create_preset(uuid, name, job_params) ==
    /\ uuid \notin StoredIds
    /\ Len(presets) < MaxPresets
    /\ \E click \in BOOLEAN :
          /\ PresetHandler("create_preset", click)
          /\ IF click
             THEN /\ update_preset([id |-> uuid, name |-> name,
                                    job_params |-> job_params], FALSE)
                  /\ Rerender
             ELSE Cancelled

rename_preset(preset, name) ==
    /\ InMenu(preset)
    /\ \E click \in BOOLEAN :
          /\ PresetHandler("rename_preset", click)
          /\ IF click
             THEN /\ update_preset([preset EXCEPT !.name = name], FALSE)
                  /\ Rerender
             ELSE Cancelled

change_preset(preset, job_params) ==
    /\ InMenu(preset)
    /\ \E click \in BOOLEAN :
          /\ PresetHandler("change_preset", click)
          /\ IF click
             THEN /\ update_preset([preset EXCEPT !.job_params = job_params], FALSE)
                  /\ Rerender
             ELSE Cancelled

remove_preset(preset) ==
    /\ InMenu(preset)
    /\ \E click \in BOOLEAN :
          /\ PresetHandler("remove_preset", click)
          /\ IF click
             THEN /\ update_preset(preset, TRUE)
                  /\ Rerender
             ELSE Cancelled

\* ------------------------------------------------------------ specifications
Tick ==
    /\ update
    /\ UNCHANGED countVars

KillJob == \E item \in menu : kill_job(item)

CreateJob == create_job

SubmitPreset == \E preset \in Presets : submit_preset(preset)

Next ==
    \/ Tick
    \/ KillJob
    \/ CreateJob
    \/ SubmitPreset

Spec == Init /\ [][Next]_vars

\* the timer fires every UPDATE_DELAY seconds for as long as the app runs
FairSpec == Spec /\ WF_vars(Tick)

\* a run of ticks alone, counted
TickCounted ==
    /\ ticks < MaxTicks
    /\ update
    /\ ticks' = ticks + 1
    /\ polls' = IF polled' THEN polls + 1 ELSE polls

NextSched == TickCounted

SpecSched == Init /\ [][NextSched]_vars

\* the preset handlers, and update_preset on every stored list and argument
DistinctIds(list) ==
    \A i, j \in 1..Len(list) : list[i].id = list[j].id => i = j

StoredLists ==
    {list \in UNION {[1..n -> Presets] : n \in 0..MaxPresets} : DistinctIds(list)}

\* the app after a first tick that polled, found no update and no active job,
\* and rendered the menu; settings['presets'] is any stored list
InitPresets ==
    /\ iteration = 0
    /\ update_cycle_len = NextCycleLen(1)
    /\ menu = RenderedMenu({})
    /\ menuFull = TRUE
    /\ lastOp = "update"
    /\ calls = <<"update", "get_active_jobs">>
    /\ notes = <<>>
    /\ shown = TRUE
    /\ rendered = TRUE
    /\ escaped = FALSE
    /\ clicked = FALSE
    /\ result = "ok"
    /\ lenBefore = 1
    /\ gapBefore = 0
    /\ resetBefore = FALSE
    /\ sincePoll = 0
    /\ justReset = FALSE
    /\ ticks = 0
    /\ polls = 0
    /\ oldPresets = <<>>
    /\ argPreset = NoPreset
    /\ argRemove = FALSE
    /\ presets \in StoredLists

CreatePreset ==
    \E uuid \in PresetIds, name \in PresetNames, job_params \in PresetParams :
        create_preset(uuid, name, job_params)

RenamePreset == \E preset \in Presets, name \in PresetNames : rename_preset(preset, name)

ChangePreset ==
    \E preset \in Presets, job_params \in PresetParams : change_preset(preset, job_params)

RemovePreset == \E preset \in Presets : remove_preset(preset)

\* update_preset called with any preset and flag
UpdatePresetCall ==
    /\ \E preset \in Presets, remove \in BOOLEAN :
          /\ update_preset(preset, remove)
          /\ lastOp' = "update_preset"
          /\ Before
          /\ calls' = <<>>
          /\ notes' = <<>>
          /\ shown' = FALSE
          /\ rendered' = FALSE
          /\ escaped' = FALSE
          /\ clicked' = FALSE
          /\ result' = "none"
          /\ UNCHANGED <<pollVars, menuVars, sincePoll, justReset, countVars>>

NextPresets ==
    \/ CreatePreset
    \/ RenamePreset
    \/ ChangePreset
    \/ RemovePreset
    \/ UpdatePresetCall

SpecPresets == InitPresets /\ [][NextPresets]_vars

\* ==================================================================== claims
IsTick == lastOp = "update"

\* C1: the first tick after set_active_mode() executes a poll, whatever
\* update_cycle_len and iteration were before the reset.
C1_NextTickPolls == (IsTick /\ resetBefore) => polled

\* a reset in the middle of a cycle, then the tick that polls
C1_Witness == IsTick /\ resetBefore /\ polled /\ gapBefore >= 2

\* C2 as stated: at rest, 0 <= iteration < update_cycle_len.
C2_Original == 0 <= iteration /\ iteration < update_cycle_len

\* C2 as amended: at rest 0 <= iteration < MAX_UPDATE_CYCLE_LEN, and
\* iteration < update_cycle_len unless set_active_mode() ran since the last
\* tick (it leaves iteration as it is).
C2_Amended ==
    /\ 0 <= iteration
    /\ iteration < MAX_UPDATE_CYCLE_LEN
    /\ ~justReset => iteration < update_cycle_len

\* the last skipped tick of a cycle of four or more ticks
C2_Witness ==
    /\ IsTick /\ ~polled /\ ~justReset
    /\ iteration = update_cycle_len - 1
    /\ iteration >= 3

\* C3: 1 <= update_cycle_len <= MAX_UPDATE_CYCLE_LEN in every reachable state.
C3_CycleLenBounded == 1 <= update_cycle_len /\ update_cycle_len <= MAX_UPDATE_CYCLE_LEN

\* a poll at the cap: doubling 30 stays at 30
C3_Witness ==
    /\ IsTick /\ polled
    /\ lenBefore = MAX_UPDATE_CYCLE_LEN
    /\ update_cycle_len = MAX_UPDATE_CYCLE_LEN

RECURSIVE Pow2(_)
Pow2(k) == IF k = 0 THEN 1 ELSE 2 * Pow2(k - 1)

\* the schedule C4 states for MAX_UPDATE_CYCLE_LEN = 30
PollTicks == <<1, 3, 7, 15, 31, 61, 91, 121>>
PollLens == <<1, 2, 4, 8, 16, 30, 30, 30>>

\* C4: in a run of ticks alone, update_cycle_len never decreases and is
\* min(2^k, MAX_UPDATE_CYCLE_LEN) after the k-th executed poll; the polls
\* execute on ticks 1, 3, 7, 15, 31, 61, 91, ... and only there, with the
\* cycle lengths 1, 2, 4, 8, 16, 30, 30, ... in effect.
C4_Schedule ==
    /\ update_cycle_len = Min(Pow2(polls), MAX_UPDATE_CYCLE_LEN)
    /\ lenBefore <= update_cycle_len
    /\ (IsTick /\ polls \in 1..Len(PollTicks)) =>
          /\ polled <=> ticks = PollTicks[polls]
          /\ polled => lenBefore = PollLens[polls]
    /\ (IsTick /\ polls = 0) => ~polled
    /\ ticks >= 1 => polls >= 1

\* the seventh poll, on tick 91
C4_Witness == IsTick /\ polled /\ polls = 7 /\ ticks = 91 /\ lenBefore = 30

\* a tick that is a no-op
NoOp ==
    /\ calls = <<>>
    /\ notes = <<>>
    /\ ~shown
    /\ ~rendered
    /\ ~escaped
    /\ update_cycle_len = lenBefore

\* C5 as stated: a tick polls iff the ticks since the last executed poll,
\* counting it, equal the update_cycle_len in effect; any other tick is a no-op.
C5_Original ==
    IsTick => /\ polled <=> (gapBefore + 1 = lenBefore)
              /\ ~polled => NoOp

\* C5 as amended: a tick polls iff the ticks since the last executed poll,
\* counting it, are at least the update_cycle_len in effect; any other tick
\* is a no-op.
C5_Amended ==
    IsTick => /\ polled <=> (gapBefore + 1 >= lenBefore)
              /\ ~polled => NoOp

\* a poll after more ticks than the cycle length in effect (a reset shortened it)
C5_Witness == IsTick /\ polled /\ gapBefore + 1 > lenBefore

\* C6: when a confirmed kill or submit succeeds at the client,
\* update_cycle_len is 1 when the handler returns.
C6_ConfirmedActionResets ==
    (lastOp \in {"kill_job", "create_job", "submit_preset"} /\ clicked /\ result = "ok")
        => update_cycle_len = 1

\* C7: no exception leaves a tick that polled.
C7_NoFailureEscapes == (IsTick /\ polled) => ~escaped

\* the backoff advanced as for a successful poll
Advanced ==
    /\ iteration = 0
    /\ update_cycle_len = Min(2 * lenBefore, MAX_UPDATE_CYCLE_LEN)

\* C8: when client.update raises AuthenticationError, show_updates is not
\* called, exactly one authentication notification is emitted and the
\* backoff is advanced; when it raises an error that is neither a ValueError
\* nor an AuthenticationError, no notification is emitted and the backoff is
\* advanced.
C8_FailedPoll ==
    (IsTick /\ polled) =>
        /\ result = "AuthenticationError" =>
              (~shown /\ notes = <<NoteAuth>> /\ NoteAuth # NoteValidation /\ Advanced)
        /\ result = "Exception" => (~shown /\ notes = <<>> /\ Advanced)

\* an authentication failure in the middle of the backoff
C8_Witness ==
    /\ IsTick /\ polled /\ result = "AuthenticationError"
    /\ lenBefore = 8 /\ update_cycle_len = 16

\* C9: at most MAX_UPDATE_CYCLE_LEN ticks pass from one executed poll (or
\* the start) to the next, and while ticks keep arriving polls keep executing.
C9_BoundedStaleness ==
    /\ [](sincePoll < MAX_UPDATE_CYCLE_LEN)
    /\ [](IsTick /\ polled => gapBefore + 1 <= MAX_UPDATE_CYCLE_LEN)
    /\ []<>(IsTick /\ polled)

\* a poll that came MAX_UPDATE_CYCLE_LEN ticks after the one before
C9_Witness == IsTick /\ polled /\ gapBefore + 1 = MAX_UPDATE_CYCLE_LEN

\* indices of the entries of list with this id
IdxOf(list, id) == {i \in 1..Len(list) : list[i].id = id}

RECURSIVE Without(_, _, _)
\* the first n entries of list, without those with this id
Without(list, id, n) ==
    IF n = 0 THEN <<>>
    ELSE IF list[n].id = id THEN Without(list, id, n - 1)
         ELSE Append(Without(list, id, n - 1), list[n])

\* C10: on a stored list with distinct ids, update_preset(p) leaves exactly
\* one entry with p's id, equal to p, where the old entry was or else at the
\* end; update_preset(p, remove=True) leaves no entry with p's id and nothing
\* changes if there was none; the other entries are unchanged, in order.
C10_UpsertRemove ==
    (argPreset # NoPreset /\ DistinctIds(oldPresets)) =>
        LET id == argPreset.id
            was == IdxOf(oldPresets, id)
            now == IdxOf(presets, id)
        IN  /\ Without(presets, id, Len(presets))
                  = Without(oldPresets, id, Len(oldPresets))
            /\ argRemove => /\ now = {}
                            /\ was = {} => presets = oldPresets
            /\ ~argRemove => /\ Cardinality(now) = 1
                             /\ \A i \in now : presets[i] = argPreset
                             /\ was # {} => now = was
                             /\ was = {} => now = {Len(oldPresets) + 1}

\* the middle entry of three is replaced by a different value
C10_Witness ==
    /\ lastOp = "rename_preset" /\ argPreset # NoPreset /\ ~argRemove
    /\ Len(oldPresets) = 3
    /\ oldPresets[2].id = argPreset.id
    /\ oldPresets[2] # argPreset
    /\ presets[2] = argPreset

====
